---- MODULE Spec2Model ----
(***************************************************************************)
(* csm::FourParameterCorrelationModel (FourParameterCorrelationModel.cpp). *)
(*                                                                         *)
(* The object holds theGroupMapping (one int per sensor model parameter)   *)
(* and theCorrParams (one Parameters value per correlation group).  Every  *)
(* public member function is one action; the csm::Error it throws is      *)
(* recorded in thrown, and the value it returns is the operator of the     *)
(* same name with the suffix Value.                                        *)
(*                                                                         *)
(* A double is a pair <<n, d>>: the rational n/d in lowest terms (d > 0),  *)
(* <<1, 0>> = +infinity, <<-1, 0>> = -infinity, <<0, 0>> = NaN, with the   *)
(* IEEE 754 rules for the operations the code uses.  Inputs are real       *)
(* numbers (finite); the sign of zero and rounding are not modelled.       *)
(***************************************************************************)
EXTENDS Integers, Sequences, FiniteSets

VARIABLES
  numSMParams,      \* first argument of the constructor
  numCPGroups,      \* second argument of the constructor
  theGroupMapping,  \* std::vector<int>, entry i at position i + 1
  theCorrParams,    \* std::vector<Parameters>, entry i at position i + 1
  theFormat,        \* the format string of the base class
  thrown,           \* the csm::Error the last call threw, NoError if it returned
  assigned,         \* history: per parameter, the group of its last successful
                    \* setCorrelationParameterGroup, -1 if there was none
  request           \* the call a caller is about to make (SpecValidate only)

vars ==
  <<numSMParams, numCPGroups, theGroupMapping, theCorrParams, theFormat,
    thrown, assigned, request>>

(* ------------------------------ bounds --------------------------------- *)

\* counts given to the constructor, and the indices callers pass, are 0..MaxCount
MaxCount == 2
\* std::exp is the Taylor polynomial of this degree
ExpTerms == 3

(* ------------------------------ doubles -------------------------------- *)

Abs(n) == IF n < 0 THEN -n ELSE n

Sgn(n) == IF n < 0 THEN -1 ELSE IF n > 0 THEN 1 ELSE 0

RECURSIVE Gcd(_, _)
Gcd(m, n) == IF n = 0 THEN m ELSE Gcd(n, m % n)

\* the double n/d, d >= 0, in lowest terms
Norm(n, d) ==
  IF d = 0 THEN <<Sgn(n), 0>>
  ELSE LET k == Gcd(Abs(n), d) IN <<n \div k, d \div k>>

D(n, d) == Norm(n, d)

NaN == <<0, 0>>
PosInf == <<1, 0>>
Zero == <<0, 1>>
One == <<1, 1>>
MinusOne == <<-1, 1>>
Ten == <<10, 1>>

IsNaN(x) == x[1] = 0 /\ x[2] = 0
IsInf(x) == x[1] # 0 /\ x[2] = 0

\* x < y; false when either is NaN
Lt(x, y) ==
  IF IsNaN(x) \/ IsNaN(y) THEN FALSE
  ELSE IF IsInf(x) /\ IsInf(y) THEN x[1] < y[1]
  ELSE x[1] * y[2] < y[1] * x[2]

Gt(x, y) == Lt(y, x)

\* x <= y; false when either is NaN
Le(x, y) ==
  IF IsNaN(x) \/ IsNaN(y) THEN FALSE ELSE ~Lt(y, x)

Add(x, y) ==
  IF IsInf(x) /\ IsInf(y) THEN (IF x[1] = y[1] THEN x ELSE NaN)
  ELSE Norm(x[1] * y[2] + y[1] * x[2], x[2] * y[2])

Neg(x) == <<-x[1], x[2]>>

Sub(x, y) == Add(x, Neg(y))

\* 0 * infinity is <<0, 0>> = NaN
Mul(x, y) == Norm(x[1] * y[1], x[2] * y[2])

\* 1/x: 1/0 is +infinity, 1/infinity is 0
Recip(x) == IF x[1] < 0 THEN <<-x[2], -x[1]>> ELSE <<x[2], x[1]>>

\* x / y: 0/0 and infinity/infinity are NaN
Div(x, y) == Mul(x, Recip(y))

fabs(x) == <<Abs(x[1]), x[2]>>

RECURSIVE Factorial(_)
Factorial(k) == IF k = 0 THEN 1 ELSE k * Factorial(k - 1)

RECURSIVE Power(_, _)
Power(x, k) == IF k = 0 THEN One ELSE Mul(x, Power(x, k - 1))

RECURSIVE Taylor(_, _)
Taylor(x, k) ==
  IF k = 0 THEN One
  ELSE Add(Taylor(x, k - 1), Div(Power(x, k), D(Factorial(k), 1)))

\* std::exp: exp(NaN) = NaN, exp(+inf) = +inf, exp(-inf) = 0, exp(0) = 1
exp(x) ==
  IF IsNaN(x) THEN NaN
  ELSE IF IsInf(x) THEN (IF x[1] > 0 THEN PosInf ELSE Zero)
  ELSE IF x[1] < 0 THEN Recip(Taylor(Neg(x), ExpTerms))
  ELSE Taylor(x, ExpTerms)

(* ------------------------------- errors -------------------------------- *)

NoError == [code |-> "NONE", message |-> "", function |-> <<>>]

\* csm::Error(code, message, function)
Error(code, message, function) ==
  [code |-> code, message |-> message, function |-> function]

(* ----------------------------- Parameters ------------------------------ *)

\* Parameters(a, alpha, beta, tau)
Parameters(a, alpha, beta, tau) ==
  [a |-> a, alpha |-> alpha, beta |-> beta, tau |-> tau]

\* Parameters(): every field 0.0
DefaultParameters == Parameters(Zero, Zero, Zero, Zero)

(* ----------------------------- construction ---------------------------- *)

\* theGroupMapping(numSMParams, -1)
InitGroupMapping(numSMParams_, numCPGroups_) == [i \in 1..numSMParams_ |-> -1]

\* theCorrParams(numSMParams): sized by the number of sensor model parameters
InitCorrParams(numSMParams_, numCPGroups_) ==
  [i \in 1..numSMParams_ |-> DefaultParameters]

FormatString == "Four-parameter model (A, alpha, beta, tau)"

(* ------------------------------ index checks --------------------------- *)

\* "csm::FourParameterCorrelationModel::" + functionName
Qualified(functionName) == <<"csm::FourParameterCorrelationModel::", functionName>>

checkSensorModelParameterIndex(smParamIndex, functionName) ==
  IF smParamIndex >= Len(theGroupMapping)
  THEN Error("INDEX_OUT_OF_RANGE",
             "Sensor model parameter index is out of range.",
             Qualified(functionName))
  ELSE NoError

checkParameterGroupIndex(groupIndex, functionName) ==
  IF groupIndex >= Len(theCorrParams)
  THEN Error("INDEX_OUT_OF_RANGE",
             "Correlation parameter group index is out of range.",
             Qualified(functionName))
  ELSE NoError

(* ------------------- what each member function throws ------------------ *)

getCorrelationParameterGroupError(smParamIndex) ==
  checkSensorModelParameterIndex(smParamIndex, "getCorrelationParameterGroup")

setCorrelationParameterGroupError(smParamIndex, cpGroupIndex) ==
  LET e == checkSensorModelParameterIndex(smParamIndex, "setCorrelationParameterGroup")
  IN IF e # NoError THEN e
     ELSE checkParameterGroupIndex(cpGroupIndex, "setCorrelationParameterGroup")

\* faulty variant: the upper bound of a is not checked
checkParameterValuesNoUpperA(params, module) ==
  IF Lt(params.a, Zero)
  THEN Error("BOUNDS", "Correlation parameter A must be in the range [-1, 1].", module)
  ELSE IF Lt(params.alpha, Zero) \/ Gt(params.alpha, One)
  THEN Error("BOUNDS", "Correlation parameter alpha must be in the range [0, 1].", module)
  ELSE IF Lt(params.beta, Zero) \/ Gt(params.beta, Ten)
  THEN Error("BOUNDS", "Correlation parameter beta must be non-negative.", module)
  ELSE IF Le(params.tau, Zero)
  THEN Error("BOUNDS", "Correlation parameter tau must be positive.", module)
  ELSE NoError

\* faulty variant: beta is checked before alpha
checkParameterValuesBetaFirst(params, module) ==
  IF Lt(params.a, Zero) \/ Gt(params.a, One)
  THEN Error("BOUNDS", "Correlation parameter A must be in the range [-1, 1].", module)
  ELSE IF Lt(params.beta, Zero) \/ Gt(params.beta, Ten)
  THEN Error("BOUNDS", "Correlation parameter beta must be non-negative.", module)
  ELSE IF Lt(params.alpha, Zero) \/ Gt(params.alpha, One)
  THEN Error("BOUNDS", "Correlation parameter alpha must be in the range [0, 1].", module)
  ELSE IF Le(params.tau, Zero)
  THEN Error("BOUNDS", "Correlation parameter tau must be positive.", module)
  ELSE NoError

\* the range checks of setCorrelationGroupParameters, in the code's order
checkParameterValues(params, module) ==
  IF Lt(params.a, Zero) \/ Gt(params.a, One)
  THEN Error("BOUNDS", "Correlation parameter A must be in the range [-1, 1].", module)
  ELSE IF Lt(params.alpha, Zero) \/ Gt(params.alpha, One)
  THEN Error("BOUNDS", "Correlation parameter alpha must be in the range [0, 1].", module)
  ELSE IF Lt(params.beta, Zero) \/ Gt(params.beta, Ten)
  THEN Error("BOUNDS", "Correlation parameter beta must be non-negative.", module)
  ELSE IF Le(params.tau, Zero)
  THEN Error("BOUNDS", "Correlation parameter tau must be positive.", module)
  ELSE NoError

\* the index check comes first
setCorrelationGroupParametersError(cpGroupIndex, params) ==
  LET e == checkParameterGroupIndex(cpGroupIndex, "setCorrelationGroupParameters")
  IN IF e # NoError THEN e
     ELSE checkParameterValues(params, Qualified("setCorrelationGroupParameters"))

getCorrelationCoefficientError(cpGroupIndex) ==
  checkParameterGroupIndex(cpGroupIndex, "getCorrelationCoefficient")

getCorrelationGroupParametersError(cpGroupIndex) ==
  checkParameterGroupIndex(cpGroupIndex, "getCorrelationGroupParameters")

(* ------------------- what each member function stores ------------------ *)

\* faulty variant: the store follows the first check only
setCorrelationParameterGroupStoreEarly(smParamIndex, cpGroupIndex) ==
  IF checkSensorModelParameterIndex(smParamIndex, "setCorrelationParameterGroup") = NoError
  THEN [theGroupMapping EXCEPT ![smParamIndex + 1] = cpGroupIndex]
  ELSE theGroupMapping

\* theGroupMapping after setCorrelationParameterGroup: the store follows both
\* checks.  The stored int is the size_t cpGroupIndex, which is below
\* theCorrParams.size() here, so the conversion keeps its value.
setCorrelationParameterGroupStore(smParamIndex, cpGroupIndex) ==
  IF setCorrelationParameterGroupError(smParamIndex, cpGroupIndex) = NoError
  THEN [theGroupMapping EXCEPT ![smParamIndex + 1] = cpGroupIndex]
  ELSE theGroupMapping

\* faulty variant: the store follows the index check and precedes the range checks
setCorrelationGroupParametersStoreEarly(cpGroupIndex, params) ==
  IF checkParameterGroupIndex(cpGroupIndex, "setCorrelationGroupParameters") = NoError
  THEN [theCorrParams EXCEPT ![cpGroupIndex + 1] = params]
  ELSE theCorrParams

\* theCorrParams after setCorrelationGroupParameters: the store is the last
\* statement, reached only when nothing was thrown
setCorrelationGroupParametersStore(cpGroupIndex, params) ==
  IF setCorrelationGroupParametersError(cpGroupIndex, params) = NoError
  THEN [theCorrParams EXCEPT ![cpGroupIndex + 1] = params]
  ELSE theCorrParams

(* ------------------- what each member function returns ----------------- *)

getNumSensorModelParametersValue == Len(theGroupMapping)

getNumCorrelationParameterGroupsValue == Len(theCorrParams)

\* for an index that passed the check
getCorrelationParameterGroupValue(smParamIndex) == theGroupMapping[smParamIndex + 1]

\* for an index that passed the check
getCorrelationGroupParametersValue(cpGroupIndex) == theCorrParams[cpGroupIndex + 1]

\* a * (alpha + ((1 - alpha) * (1 + beta) / (beta + exp(fabs(deltaTime) / tau))))
corrCoeffFormula(cp, deltaTime) ==
  Mul(cp.a,
      Add(cp.alpha,
          Div(Mul(Sub(One, cp.alpha), Add(One, cp.beta)),
              Add(cp.beta, exp(Div(fabs(deltaTime), cp.tau))))))

\* if (c < -1.0) c = -1.0; else if (c > 1.0) c = 1.0;
clampCoeff(corrCoeff) ==
  IF Lt(corrCoeff, MinusOne) THEN MinusOne
  ELSE IF Gt(corrCoeff, One) THEN One
  ELSE corrCoeff

\* for an index that passed the check
getCorrelationCoefficientValue(cpGroupIndex, deltaTime) ==
  clampCoeff(corrCoeffFormula(theCorrParams[cpGroupIndex + 1], deltaTime))

(* ------------------------------- inputs -------------------------------- *)

\* size_t indices passed by callers
Indices == 0..MaxCount

\* deltaTime values passed by callers
DeltaTimes == {D(-5, 1), D(-1, 1), Zero, D(1, 1), D(5, 1)}

\* Parameters passed to setCorrelationGroupParameters in Spec: two in bounds,
\* one out of bounds per field, one with every field out of bounds
ParamInputs ==
  { Parameters(D(4, 5), D(3, 10), D(1, 1), D(5, 1)),
    Parameters(D(1, 1), D(0, 1), D(10, 1), D(1, 1)),
    Parameters(D(3, 2), D(1, 2), D(1, 1), D(1, 1)),
    Parameters(D(1, 2), D(-1, 2), D(1, 1), D(1, 1)),
    Parameters(D(1, 2), D(1, 2), D(11, 1), D(1, 1)),
    Parameters(D(1, 2), D(1, 2), D(1, 1), D(0, 1)),
    Parameters(D(3, 2), D(3, 2), D(11, 1), D(0, 1)) }

\* Parameters passed in SpecValidate: per field the two bounds, a value just
\* outside each and a value inside
AGrid == {D(-1, 10000), Zero, D(1, 2), One, D(10001, 10000)}
BetaGrid == {D(-1, 10000), Zero, D(5, 1), Ten, D(100001, 10000)}
TauGrid == {D(-1, 1), Zero, D(1, 10000), D(5, 1)}
ParamGrid ==
  {Parameters(a, alpha, beta, tau) :
     a \in AGrid, alpha \in AGrid, beta \in BetaGrid, tau \in TauGrid}

NoRequest == [done |-> TRUE, cpGroupIndex |-> 0, params |-> DefaultParameters]

(* ------------------------------- actions ------------------------------- *)

Construct(n, g) ==
  /\ numSMParams = n
  /\ numCPGroups = g
  /\ theGroupMapping = InitGroupMapping(n, g)
  /\ theCorrParams = InitCorrParams(n, g)
  /\ theFormat = FormatString
  /\ thrown = NoError
  /\ assigned = [i \in 1..n |-> -1]

Init ==
  /\ \E n \in 0..MaxCount, g \in 0..MaxCount : Construct(n, g)
  /\ request = NoRequest

GetNumSensorModelParameters ==
  /\ thrown' = NoError
  /\ UNCHANGED <<numSMParams, numCPGroups, theGroupMapping, theCorrParams,
                 theFormat, assigned, request>>

GetNumCorrelationParameterGroups ==
  /\ thrown' = NoError
  /\ UNCHANGED <<numSMParams, numCPGroups, theGroupMapping, theCorrParams,
                 theFormat, assigned, request>>

GetCorrelationParameterGroup(smParamIndex) ==
  /\ thrown' = getCorrelationParameterGroupError(smParamIndex)
  /\ UNCHANGED <<numSMParams, numCPGroups, theGroupMapping, theCorrParams,
                 theFormat, assigned, request>>

SetCorrelationParameterGroup(smParamIndex, cpGroupIndex) ==
  /\ thrown' = setCorrelationParameterGroupError(smParamIndex, cpGroupIndex)
  /\ theGroupMapping' = setCorrelationParameterGroupStore(smParamIndex, cpGroupIndex)
  /\ assigned' = IF thrown' = NoError
                 THEN [assigned EXCEPT ![smParamIndex + 1] = cpGroupIndex]
                 ELSE assigned
  /\ UNCHANGED <<numSMParams, numCPGroups, theCorrParams, theFormat, request>>

\* setCorrelationGroupParameters(cpGroupIndex, const Parameters&)
SetCorrelationGroupParameters(cpGroupIndex, params) ==
  /\ thrown' = setCorrelationGroupParametersError(cpGroupIndex, params)
  /\ theCorrParams' = setCorrelationGroupParametersStore(cpGroupIndex, params)
  /\ UNCHANGED <<numSMParams, numCPGroups, theGroupMapping, theFormat, assigned>>

\* setCorrelationGroupParameters(cpGroupIndex, a, alpha, beta, tau)
SetCorrelationGroupParameters4(cpGroupIndex, a, alpha, beta, tau) ==
  /\ SetCorrelationGroupParameters(cpGroupIndex, Parameters(a, alpha, beta, tau))
  /\ UNCHANGED request

\* the caller of SpecValidate makes the call it drew
ServeRequest ==
  /\ ~request.done
  /\ SetCorrelationGroupParameters(request.cpGroupIndex, request.params)
  /\ request' = [request EXCEPT !.done = TRUE]

GetCorrelationCoefficient(cpGroupIndex, deltaTime) ==
  /\ thrown' = getCorrelationCoefficientError(cpGroupIndex)
  /\ UNCHANGED <<numSMParams, numCPGroups, theGroupMapping, theCorrParams,
                 theFormat, assigned, request>>

GetCorrelationGroupParameters(cpGroupIndex) ==
  /\ thrown' = getCorrelationGroupParametersError(cpGroupIndex)
  /\ UNCHANGED <<numSMParams, numCPGroups, theGroupMapping, theCorrParams,
                 theFormat, assigned, request>>

Next ==
  \/ GetNumSensorModelParameters
  \/ GetNumCorrelationParameterGroups
  \/ \E p \in Indices : GetCorrelationParameterGroup(p)
  \/ \E p \in Indices, g \in Indices : SetCorrelationParameterGroup(p, g)
  \/ \E g \in Indices, q \in ParamInputs :
       SetCorrelationGroupParameters4(g, q.a, q.alpha, q.beta, q.tau)
  \/ \E g \in Indices, t \in DeltaTimes : GetCorrelationCoefficient(g, t)
  \/ \E g \in Indices : GetCorrelationGroupParameters(g)

Spec == Init /\ [][Next]_vars

\* one setCorrelationGroupParameters call, its arguments drawn from ParamGrid,
\* on a freshly constructed model
InitValidate ==
  /\ \E n \in 0..MaxCount, g \in 0..MaxCount : Construct(n, g)
  /\ request \in [done : {FALSE}, cpGroupIndex : Indices, params : ParamGrid]

NextValidate == ServeRequest

SpecValidate == InitValidate /\ [][NextValidate]_vars

(* ------------------------------- claims -------------------------------- *)

\* comparisons of a finite double with an integer, in exact arithmetic
Below(x, k) == x[2] # 0 /\ x[1] < k * x[2]
Above(x, k) == x[2] # 0 /\ x[1] > k * x[2]
Within(x, lo, hi) == x[2] # 0 /\ lo * x[2] <= x[1] /\ x[1] <= hi * x[2]

OutOfRange(e) == e.code = "INDEX_OUT_OF_RANGE"
InvalidBounds(e) == e.code = "BOUNDS"
ThrownBy(e, functionName) == e.function = Qualified(functionName)

ValidParams == 0..(getNumSensorModelParametersValue - 1)
ValidGroups == 0..(getNumCorrelationParameterGroupsValue - 1)

\* group indices below the count the object reports and below the count given
\* to the constructor
ConstructedGroups == {g \in ValidGroups : g < numCPGroups}

\* Parameters within the documented bounds
InBounds(q) ==
  /\ Within(q.a, 0, 1)
  /\ Within(q.alpha, 0, 1)
  /\ Within(q.beta, 0, 10)
  /\ Above(q.tau, 0)

\* the first field of q outside its documented bounds, in the order a, alpha, beta, tau
FirstViolated(q) ==
  IF ~Within(q.a, 0, 1) THEN "a"
  ELSE IF ~Within(q.alpha, 0, 1) THEN "alpha"
  ELSE IF ~Within(q.beta, 0, 10) THEN "beta"
  ELSE IF ~Above(q.tau, 0) THEN "tau"
  ELSE "none"

\* the field a BOUNDS message names
FieldNamed(message) ==
  CASE message = "Correlation parameter A must be in the range [-1, 1]." -> "a"
    [] message = "Correlation parameter alpha must be in the range [0, 1]." -> "alpha"
    [] message = "Correlation parameter beta must be non-negative." -> "beta"
    [] message = "Correlation parameter tau must be positive." -> "tau"
    [] OTHER -> "none"

\* the range a BOUNDS message states for its field
RangeNamed(message) ==
  CASE message = "Correlation parameter A must be in the range [-1, 1]." -> "[-1, 1]"
    [] message = "Correlation parameter alpha must be in the range [0, 1]." -> "[0, 1]"
    [] message = "Correlation parameter beta must be non-negative." -> "[0, inf)"
    [] message = "Correlation parameter tau must be positive." -> "(0, inf)"
    [] OTHER -> "none"

\* the range the documentation requires of each field
RangeRequired(fieldName) ==
  CASE fieldName = "a" -> "[0, 1]"
    [] fieldName = "alpha" -> "[0, 1]"
    [] fieldName = "beta" -> "[0, 10]"
    [] fieldName = "tau" -> "(0, inf)"
    [] OTHER -> "none"

\* C1: the two counts the getters return are the two counts given to the
\* constructor, in every reachable state, also when they differ.
C1_CountsAsConstructed ==
  /\ getNumSensorModelParametersValue = numSMParams
  /\ getNumCorrelationParameterGroupsValue = numCPGroups

\* C2: with n and g the counts given to the constructor, every call with a
\* parameter index >= n or a group index >= g throws INDEX_OUT_OF_RANGE, and
\* calls with parameter index n - 1 and group index g - 1 do not throw.
C2_IndexBoundsAsConstructed ==
  \A i \in Indices :
    /\ i >= numSMParams =>
         /\ OutOfRange(getCorrelationParameterGroupError(i))
         /\ \A j \in Indices : OutOfRange(setCorrelationParameterGroupError(i, j))
    /\ i = numSMParams - 1 =>
         /\ getCorrelationParameterGroupError(i) = NoError
         /\ \A j \in Indices :
              j < numCPGroups => setCorrelationParameterGroupError(i, j) = NoError
    /\ i >= numCPGroups =>
         /\ \A p \in Indices : OutOfRange(setCorrelationParameterGroupError(p, i))
         /\ \A q \in ParamInputs :
              InBounds(q) => OutOfRange(setCorrelationGroupParametersError(i, q))
         /\ OutOfRange(getCorrelationGroupParametersError(i))
         /\ OutOfRange(getCorrelationCoefficientError(i))
    /\ i = numCPGroups - 1 =>
         /\ \A p \in Indices :
              p < numSMParams => setCorrelationParameterGroupError(p, i) = NoError
         /\ \A q \in ParamInputs :
              InBounds(q) => setCorrelationGroupParametersError(i, q) = NoError
         /\ getCorrelationGroupParametersError(i) = NoError
         /\ getCorrelationCoefficientError(i) = NoError

\* C3: a setCorrelationGroupParameters call that throws (BOUNDS or
\* INDEX_OUT_OF_RANGE) changes no stored Parameters and no group mapping
\* entry; getCorrelationGroupParameters returns the same before and after.
C3_FailedSetLeavesStore ==
  [][ (ThrownBy(thrown', "setCorrelationGroupParameters")
         /\ (InvalidBounds(thrown') \/ OutOfRange(thrown')))
      => /\ theCorrParams' = theCorrParams
         /\ theGroupMapping' = theGroupMapping
         /\ \A g \in ValidGroups :
              getCorrelationGroupParametersValue(g)' = getCorrelationGroupParametersValue(g)
    ]_vars

\* a range check rejected a call while a group holds parameters set earlier
C3_Witness ==
  /\ ThrownBy(thrown, "setCorrelationGroupParameters")
  /\ InvalidBounds(thrown)
  /\ \E g \in ValidGroups : getCorrelationGroupParametersValue(g) # DefaultParameters

\* C4: the Parameters stored for every group are the all-zero default or lie
\* within the documented bounds.
C4_StoredParametersInBounds ==
  \A g \in ValidGroups :
    LET q == getCorrelationGroupParametersValue(g)
    IN q = DefaultParameters \/ InBounds(q)

\* two groups hold different parameters, both set by successful calls
C4_Witness ==
  \E g \in ValidGroups, h \in ValidGroups :
    /\ getCorrelationGroupParametersValue(g) # DefaultParameters
    /\ getCorrelationGroupParametersValue(h) # DefaultParameters
    /\ getCorrelationGroupParametersValue(g) # getCorrelationGroupParametersValue(h)

\* C5: for a valid group index, setCorrelationGroupParameters throws BOUNDS
\* exactly when a field is outside its bounds (the bounds themselves are
\* accepted), the message names the first such field in the order a, alpha,
\* beta, tau, and otherwise nothing is thrown.
C5_BoundsErrorNamesFirstField ==
  (request.done /\ request.cpGroupIndex \in ValidGroups) =>
    /\ InvalidBounds(thrown) <=> ~InBounds(request.params)
    /\ InBounds(request.params) => thrown = NoError
    /\ InvalidBounds(thrown) => FieldNamed(thrown.message) = FirstViolated(request.params)

\* a call with alpha and beta both out of bounds was rejected for alpha
C5_Witness ==
  /\ request.done
  /\ request.cpGroupIndex \in ValidGroups
  /\ Within(request.params.a, 0, 1)
  /\ Above(request.params.alpha, 1)
  /\ Above(request.params.beta, 10)
  /\ InvalidBounds(thrown)
  /\ FieldNamed(thrown.message) = "alpha"

\* C6: for every valid group index and every deltaTime,
\* getCorrelationCoefficient returns a value v with -1 <= v <= 1, whatever
\* is stored for the group.
C6_CoefficientInRange ==
  \A g \in ConstructedGroups, t \in DeltaTimes :
    Within(getCorrelationCoefficientValue(g, t), -1, 1)

\* C7: at deltaTime = 0 getCorrelationCoefficient returns
\* clamp(a * (alpha + (1 - alpha) * (1 + beta) / (beta + 1)), -1, 1), which is
\* a for a group whose parameters were set by a successful call.
C7_CoefficientAtZero ==
  \A g \in ConstructedGroups :
    LET q == getCorrelationGroupParametersValue(g)
        r == Mul(q.a, Add(q.alpha,
                          Div(Mul(Sub(One, q.alpha), Add(One, q.beta)),
                              Add(q.beta, One))))
        c == IF Below(r, -1) THEN MinusOne ELSE IF Above(r, 1) THEN One ELSE r
        v == getCorrelationCoefficientValue(g, Zero)
    IN /\ v = c
       /\ q # DefaultParameters => v = q.a

\* C8: for every valid parameter index p, getCorrelationParameterGroup(p)
\* returns the group of the most recent successful
\* setCorrelationParameterGroup(p, .), and -1 if there was none.
C8_GroupIsLastAssigned ==
  \A p \in ValidParams : getCorrelationParameterGroupValue(p) = assigned[p + 1]

\* a setCorrelationParameterGroup call failed after another had assigned a
\* group to one parameter, while a second parameter is still unassigned
C8_Witness ==
  /\ ThrownBy(thrown, "setCorrelationParameterGroup")
  /\ OutOfRange(thrown)
  /\ \E p \in ValidParams, r \in ValidParams :
       /\ getCorrelationParameterGroupValue(p) >= 0
       /\ getCorrelationParameterGroupValue(r) = -1

\* C9: every group mapping entry is -1 or a group index below the number of
\* correlation parameter groups given to the constructor.
C9_MappingWithinConstructedGroups ==
  \A p \in ValidParams :
    LET m == getCorrelationParameterGroupValue(p)
    IN m = -1 \/ (0 <= m /\ m < numCPGroups)

\* C10: the message of every BOUNDS error states, for the field it names,
\* the range the validation enforces: [0,1] for a and alpha, [0,10] for
\* beta, positive for tau.
C10_MessageStatesEnforcedRange ==
  InvalidBounds(thrown) =>
    RangeNamed(thrown.message) = RangeRequired(FieldNamed(thrown.message))

====
